---------------------------- MODULE Spec2Model ----------------------------
(***************************************************************************)
(* The per-call session bridge of the Talkertive websocket bridge          *)
(* (src/server.js, version 2.2.2, lines 661-1512): one telephony           *)
(* connection, the AI channels it opens, the tool dispatcher and the       *)
(* outcome finalizer.                                                      *)
(*                                                                         *)
(* Every handler is an async JavaScript function: it runs without          *)
(* interruption up to its next await of a real I/O operation, so each      *)
(* action below is one such run-to-await segment.  A handler suspended at  *)
(* an await is a task record with its position (pc).                       *)
(***************************************************************************)
EXTENDS Integers, Sequences, FiniteSets, TLC

----------------------------------------------------------------------------
(* Bounds of the model *)

\* number of events the two peers deliver to the session
MaxEvents == 3

\* number of connections that are followed handler by handler
MaxSessions == 2

\* number of events those connections receive in all
MaxSessionEvents == 3

\* number of times the clock advances
MaxTicks == 2

----------------------------------------------------------------------------
(* Values *)

\* JavaScript null / undefined of a string-valued field
NULL == "NULL"

\* the caller number a start event carries in its custom parameters (the
\* <Parameter name="from"> that /incoming-call puts into every stream)
CallerNumber == "+15550100"

\* arguments of capture_lead_info (FUNCTION_TOOLS: no field is required)
NoArgs ==
  [name |-> NULL, email |-> NULL, phone |-> NULL, notes |-> NULL,
   smsConsent |-> "undefined", customerName |-> NULL, dateTime |-> NULL,
   purpose |-> NULL, orderId |-> NULL]

LeadArgs ==
  { [NoArgs EXCEPT !.name = "Ana"],
    [NoArgs EXCEPT !.notes = "wants a quote"],
    [NoArgs EXCEPT !.email = "ana@example.com", !.phone = "+15550199",
                   !.smsConsent = "true"] }

\* arguments of book_appointment
BookArgs ==
  { [NoArgs EXCEPT !.customerName = "Lee", !.dateTime = "2025-03-01T10:00:00-05:00",
                   !.purpose = "consult", !.smsConsent = "true"],
    [NoArgs EXCEPT !.customerName = "Lee", !.dateTime = "next tuesday",
                   !.purpose = "consult"],
    [NoArgs EXCEPT !.customerName = "Lee", !.purpose = "consult"] }

\* arguments of lookup_order_status: the order id may be missing
LookupArgs == { NoArgs, [NoArgs EXCEPT !.orderId = " #ab12 "] }

\* the strings that new Date(s) parses to a valid time value
ParsableDates == {"2025-03-01T10:00:00-05:00"}

ToolNames == {"capture_lead_info", "book_appointment", "lookup_order_status", "other_tool"}

ArgsOf(functionName) ==
  CASE functionName = "capture_lead_info" -> LeadArgs
    [] functionName = "book_appointment" -> BookArgs
    [] functionName = "lookup_order_status" -> LookupArgs
    [] OTHER -> {NoArgs}

\* what the backend answers to a request
BackendResponses == {"ok_id", "ok_noid", "not_ok", "throw"}

----------------------------------------------------------------------------
(* State of one connection (the closure of wss.on('connection')) *)

VARIABLES
  wsState,                \* telephony socket: "open" | "closed"
  callSid,                \* 0 = null
  streamSid,              \* 0 = null
  fromPhoneNumber,        \* NULL or the caller number
  userId,                 \* 0 = null
  openaiWs,               \* 0 = null, else the index in chan of the current AI channel
  chan,                   \* the AI channels created so far: [st, by, out, settings]
  webhookSent,            \* guard of the outcome dispatch
  capturedLeadInfo,
  appointmentIntent,
  appointmentDetails,     \* [isNull, args]
  appointmentResult,      \* [isNull, appointmentId]
  conversationTranscript, \* sequence of [speaker, text]
  startTasks,             \* start handlers: sequence of [pc]
  stopPc,                 \* the stop handler that passed the guard:
                          \*   "idle" | "webhook" | "patch" | "done" | "failed"
  calls,                  \* tool-call handlers: sequence of
                          \*   [name, args, pc, success, failed, mediaSeen]
  n8n,                    \* events handed to triggerN8nWebhook, in order
  twilioOut,              \* audio deltas transmitted to the telephony peer, in order
  mediaIn,                \* number of media frames received
  deltaIn,                \* number of audio deltas received
  crashed,                \* an exception escaped an event listener
  stopsIn,                \* number of stop events received
  acksIn,                 \* number of session.updated events received
  delivery,               \* how triggerN8nWebhook settled, and the stops received by then
  malformed,              \* the events that were dropped as malformed: how many, and
                          \*   the number of events received when the last one came
  activeSessions,         \* the registry: the ids of its entries
  sessions,               \* the closure state of each connection, by session id
  now,                    \* the clock new Date() reads, in milliseconds
  orderLookup             \* lookup_order_status followed on its own: the orderId
                          \*   argument of the last call, the cleanOrderId made of
                          \*   it, and the number of calls

\* the closure of the connection that is followed step by step
connectionVars ==
  << wsState, callSid, streamSid, fromPhoneNumber, userId, openaiWs, chan,
     webhookSent, capturedLeadInfo, appointmentIntent, appointmentDetails,
     appointmentResult, conversationTranscript, startTasks, stopPc, calls,
     n8n, twilioOut, mediaIn, deltaIn, crashed, stopsIn, acksIn, delivery,
     malformed >>

\* the registry (module level), the closures of the connections that are
\* followed handler by handler, and the clock
serverVars == << activeSessions, sessions, now >>

vars == << connectionVars, serverVars, orderLookup >>

\* the variables of the session named by the data model
sessionVars ==
  << callSid, streamSid, fromPhoneNumber, userId, openaiWs, webhookSent,
     capturedLeadInfo, appointmentIntent, appointmentDetails, appointmentResult,
     conversationTranscript >>

NoDetails == [isNull |-> TRUE, args |-> NoArgs]
NoResult == [isNull |-> TRUE, appointmentId |-> 0]

\* const capturedLeadInfo = { name: null, ... } (notes as the sequence of
\* the notes given so far)
NoLead ==
  [name |-> NULL, email |-> NULL, phone |-> NULL, notes |-> << >>, smsConsent |-> FALSE]

\* const sessionId = uuidv4(): the id of the connection followed step by
\* step, and the ids of the connections followed handler by handler
sessionId == 0
SessionIds == 1..MaxSessions

\* a time that has not come
Never == -1

\* the closure of a connection before the connection exists.  ws is the
\* state of its telephony socket ("none" | "open" | "closed"); events counts
\* the events it received; n8n holds the payloads it handed to
\* triggerN8nWebhook; startedAt and stoppedAt are history: the clock at its
\* first start event and at the stop event that ran the finalizer.
NoSession ==
  [ws |-> "none", events |-> 0, callSid |-> 0, streamSid |-> 0,
   fromPhoneNumber |-> NULL, userId |-> 0, callStartTime |-> Never,
   webhookSent |-> FALSE, capturedLeadInfo |-> NoLead,
   appointmentIntent |-> FALSE, appointmentDetails |-> NoDetails,
   appointmentResult |-> NoResult, conversationTranscript |-> << >>,
   n8n |-> << >>, startedAt |-> Never, stoppedAt |-> Never]

\* the characters of an order id: text is a sequence of them
OrderIdChars == {" ", "#", "a", "1"}

\* no call of lookup_order_status yet
NoLookup == [orderId |-> << >>, cleanOrderId |-> << >>, n |-> 0]

\* the closure of the connection, the registry and the clock after
\* construction
ConnectionInit ==
  /\ wsState = "open"
  /\ callSid = 0
  /\ streamSid = 0
  /\ fromPhoneNumber = NULL
  /\ userId = 0
  /\ openaiWs = 0
  /\ chan = << >>
  /\ webhookSent = FALSE
  /\ capturedLeadInfo = NoLead
  /\ appointmentIntent = FALSE
  /\ appointmentDetails = NoDetails
  /\ appointmentResult = NoResult
  /\ conversationTranscript = << >>
  /\ startTasks = << >>
  /\ stopPc = "idle"
  /\ calls = << >>
  /\ n8n = << >>
  /\ twilioOut = << >>
  /\ mediaIn = 0
  /\ deltaIn = 0
  /\ crashed = FALSE
  /\ stopsIn = 0
  /\ acksIn = 0
  /\ delivery = [result |-> "none", stops |-> 0]
  /\ malformed = [n |-> 0, at |-> 0]
  /\ activeSessions = {sessionId}
  /\ sessions = [s \in SessionIds |-> NoSession]
  /\ now = 0

\* the state after construction: no order has been looked up
Init == ConnectionInit /\ orderLookup = NoLookup

----------------------------------------------------------------------------
(* The two sockets *)

Msg(type, id, success) == [type |-> type, id |-> id, success |-> success]

\* readyState of the current AI channel ("null" when openaiWs is null)
ReadyState(cur, ch) == IF cur = 0 THEN "null" ELSE ch[cur].st

\* openaiWs.send(m1); openaiWs.send(m2); ... : the channels after the sends.
\* Only an OPEN socket transmits; a socket that is CLOSING or CLOSED
\* transmits nothing, and a null or CONNECTING one makes send throw.
OpenaiSend(cur, ch, msgs) ==
  IF ReadyState(cur, ch) = "open"
    THEN [ch EXCEPT ![cur].out = @ \o msgs]
    ELSE ch

SendThrows(cur, ch) == ReadyState(cur, ch) \in {"null", "connecting"}

\* openaiWs.close(): starts the closing handshake of a socket that is OPEN,
\* aborts the connection attempt of one that is CONNECTING (readyState is
\* CLOSING in both cases, but an aborted socket never receives a message),
\* and does nothing otherwise
OpenaiClose(cur, ch) ==
  IF cur # 0 /\ ch[cur].st \in {"connecting", "open"}
    THEN [ch EXCEPT ![cur].st = IF @ = "open" THEN "closing" ELSE "aborting",
                    ![cur].by = "bridge"]
    ELSE ch

\* a send that does not depend on the state of the socket
WsSendAlways(state, out, frame) == Append(out, frame)

\* ws.send(frame) on the telephony socket: transmitted only while it is open
WsSend(state, out, frame) ==
  IF state = "open" THEN Append(out, frame) ELSE out

----------------------------------------------------------------------------
(* Environment: an event is delivered to a listener *)

\* no listener runs after an exception escaped one, and the peers deliver
\* at most MaxEvents events
Events ==
  Len(startTasks) + mediaIn + stopsIn + acksIn + deltaIn
    + Len(conversationTranscript) + Len(calls) + malformed.n

CanDeliver == ~crashed /\ Events < MaxEvents

----------------------------------------------------------------------------
(* Telephony: ws.on('message'), case 'start' *)

\* initializeOpenAI(settings): a new socket, CONNECTING, becomes the current
\* channel; its listeners keep the settings they were created with
\* (0 = null, else the tenant whose settings they are)
InitializeOpenAI(ch, settings) ==
  Append(ch, [st |-> "connecting", by |-> "none", out |-> << >>,
              settings |-> settings])

\* the start event: identifiers and numbers are stored, then the handler
\* awaits getUserSettingsByPhone
OnStart ==
  /\ wsState = "open"
  /\ streamSid' = Len(startTasks) + 1
  /\ callSid' = Len(startTasks) + 1
  /\ fromPhoneNumber' = CallerNumber
  /\ startTasks' = Append(startTasks, [pc |-> "settings"])
  /\ UNCHANGED << stopsIn, acksIn >>
  /\ UNCHANGED << wsState, userId, openaiWs, chan, webhookSent, capturedLeadInfo,
                  appointmentIntent, appointmentDetails, appointmentResult,
                  conversationTranscript, stopPc, calls, n8n, twilioOut, mediaIn,
                  deltaIn, crashed >>
  /\ UNCHANGED << delivery, malformed, serverVars, orderLookup >>

\* a start event is delivered
Start == CanDeliver /\ OnStart

\* a start handler that gives up when the lookup finds no settings
StartSettingsFatal(t, uid) ==
  /\ ~crashed
  /\ t \in 1..Len(startTasks) /\ startTasks[t].pc = "settings"
  /\ userId' = uid
  /\ IF uid # 0 /\ callSid # 0
       THEN /\ startTasks' = [startTasks EXCEPT ![t].pc = "log"]
            /\ UNCHANGED << openaiWs, chan >>
       ELSE /\ startTasks' = [startTasks EXCEPT ![t].pc = "done"]
            /\ UNCHANGED << openaiWs, chan >>
  /\ UNCHANGED << wsState, callSid, streamSid, fromPhoneNumber, webhookSent,
                  capturedLeadInfo, appointmentIntent, appointmentDetails,
                  appointmentResult, conversationTranscript, stopPc, calls, n8n,
                  twilioOut, mediaIn, deltaIn, crashed, stopsIn, acksIn >>
  /\ UNCHANGED << delivery, malformed, serverVars, orderLookup >>

\* getUserSettingsByPhone returned the settings of tenant uid, or null
\* (uid = 0) when nothing was found, the response was not OK or the request
\* threw; with a tenant and a call id the handler awaits the bridge-log
\* request, otherwise it opens the AI channel at once
StartSettings(t, uid) ==
  /\ ~crashed
  /\ t \in 1..Len(startTasks) /\ startTasks[t].pc = "settings"
  /\ userId' = uid
  /\ IF uid # 0 /\ callSid # 0
       THEN /\ startTasks' = [startTasks EXCEPT ![t].pc = "log"]
            /\ UNCHANGED << openaiWs, chan >>
       ELSE /\ startTasks' = [startTasks EXCEPT ![t].pc = "done"]
            /\ chan' = InitializeOpenAI(chan, uid)
            /\ openaiWs' = Len(chan) + 1
  /\ UNCHANGED << wsState, callSid, streamSid, fromPhoneNumber, webhookSent,
                  capturedLeadInfo, appointmentIntent, appointmentDetails,
                  appointmentResult, conversationTranscript, stopPc, calls, n8n,
                  twilioOut, mediaIn, deltaIn, crashed, stopsIn, acksIn >>
  /\ UNCHANGED << delivery, malformed, serverVars, orderLookup >>

\* the bridge-log request settled (its failure is only logged)
StartLog(t) ==
  /\ ~crashed
  /\ t \in 1..Len(startTasks) /\ startTasks[t].pc = "log"
  /\ startTasks' = [startTasks EXCEPT ![t].pc = "done"]
  /\ chan' = InitializeOpenAI(chan, userId)
  /\ openaiWs' = Len(chan) + 1
  /\ UNCHANGED << wsState, callSid, streamSid, fromPhoneNumber, userId, webhookSent,
                  capturedLeadInfo, appointmentIntent, appointmentDetails,
                  appointmentResult, conversationTranscript, stopPc, calls, n8n,
                  twilioOut, mediaIn, deltaIn, crashed, stopsIn, acksIn >>
  /\ UNCHANGED << delivery, malformed, serverVars, orderLookup >>

----------------------------------------------------------------------------
(* Telephony: ws.on('message'), case 'media' *)

\* a test of the wrong readyState
MediaForwardedWhileConnecting(cur, ch) == cur # 0 /\ ch[cur].st = "connecting"

\* the condition under which a media frame is forwarded
MediaForwarded(cur, ch) == cur # 0 /\ ch[cur].st = "open"

AudioAppend(frame) == Msg("input_audio_buffer.append", frame, FALSE)

\* a media handler that takes the stream identifier from the frame
MediaTakesStreamSid ==
  /\ CanDeliver /\ wsState = "open"
  /\ mediaIn' = mediaIn + 1
  /\ streamSid' = IF streamSid = 0 THEN 1 ELSE streamSid
  /\ chan' = IF MediaForwarded(openaiWs, chan)
               THEN OpenaiSend(openaiWs, chan, << AudioAppend(mediaIn + 1) >>)
               ELSE chan
  /\ UNCHANGED << stopsIn, acksIn >>
  /\ UNCHANGED << wsState, callSid, fromPhoneNumber, userId, openaiWs,
                  webhookSent, capturedLeadInfo, appointmentIntent, appointmentDetails,
                  appointmentResult, conversationTranscript, startTasks, stopPc, calls,
                  n8n, twilioOut, deltaIn, crashed >>
  /\ UNCHANGED << delivery, malformed, serverVars, orderLookup >>

\* a media frame, numbered in the order of arrival
Media ==
  /\ CanDeliver /\ wsState = "open"
  /\ mediaIn' = mediaIn + 1
  /\ chan' = IF MediaForwarded(openaiWs, chan)
               THEN OpenaiSend(openaiWs, chan, << AudioAppend(mediaIn + 1) >>)
               ELSE chan
  /\ UNCHANGED << stopsIn, acksIn >>
  /\ UNCHANGED << wsState, callSid, streamSid, fromPhoneNumber, userId, openaiWs,
                  webhookSent, capturedLeadInfo, appointmentIntent, appointmentDetails,
                  appointmentResult, conversationTranscript, startTasks, stopPc, calls,
                  n8n, twilioOut, deltaIn, crashed >>
  /\ UNCHANGED << delivery, malformed, serverVars, orderLookup >>

----------------------------------------------------------------------------
(* Telephony: ws.on('message'), case 'stop' -- the outcome finalizer *)

\* the lead test of the earlier version (src/unnamed/part_000:405)
hasLeadInfoNameOrEmail(lead) == lead.name # NULL \/ lead.email # NULL

hasLeadInfo(lead) == lead.name # NULL \/ lead.email # NULL \/ lead.notes # << >>

hasIsoDateTime(details) == ~details.isNull /\ details.args.dateTime # NULL

hasAppointmentId(result) == ~result.isNull /\ result.appointmentId # 0

\* a selection that takes the booking intent for a booking
EventTypeByIntent(intent, details, result, lead) ==
  IF intent /\ hasIsoDateTime(details)
    THEN "appointment_booked"
    ELSE IF hasLeadInfo(lead) THEN "lead_captured" ELSE "call_completed"

\* the branch of the if / else if / else that selects the event
EventType(intent, details, result, lead) ==
  IF intent /\ hasIsoDateTime(details) /\ hasAppointmentId(result)
    THEN "appointment_booked"
    ELSE IF hasLeadInfo(lead) THEN "lead_captured" ELSE "call_completed"

Or(a, b) == IF a # NULL THEN a ELSE b

\* conversationLog: the entries as lines "[speaker]: text", in the order of
\* the array, or a fixed sentence when there is none
ConversationLog(transcript) ==
  IF transcript = << >>
    THEN << << "Conversation transcript not available" >> >>
    ELSE [i \in 1..Len(transcript) |->
            << "[", transcript[i].speaker, "]: ", transcript[i].text >>]

\* the payload handed to triggerN8nWebhook
OutcomeEvent(intent, details, result, lead, from, csid, uid, transcript) ==
  CASE EventType(intent, details, result, lead) = "appointment_booked" ->
         [eventType |-> "appointment_booked", callSid |-> csid, userId |-> uid,
          appointmentId |-> result.appointmentId,
          customerName |-> Or(details.args.customerName, Or(lead.name, "Unknown")),
          customerPhone |-> Or(lead.phone, Or(from, "")),
          appointmentDate |-> details.args.dateTime,
          purpose |-> Or(details.args.purpose, "consultation"),
          smsConsent |-> (details.args.smsConsent = "true"),
          leadCaptured |-> hasLeadInfo(lead),
          conversationLog |-> ConversationLog(transcript)]
    [] EventType(intent, details, result, lead) = "lead_captured" ->
         [eventType |-> "lead_captured", callSid |-> csid, userId |-> uid,
          customerName |-> Or(lead.name, "Unknown"),
          customerEmail |-> Or(lead.email, ""),
          customerPhone |-> Or(lead.phone, Or(from, "")),
          summary |-> lead.notes,
          smsConsent |-> lead.smsConsent,
          appointmentBooked |-> FALSE, leadCaptured |-> TRUE,
          bookingIntent |-> intent,
          conversationLog |-> ConversationLog(transcript)]
    [] OTHER ->
         [eventType |-> "call_completed", callSid |-> csid, userId |-> uid,
          appointmentBooked |-> FALSE, leadCaptured |-> FALSE,
          bookingIntent |-> intent,
          conversationLog |-> ConversationLog(transcript)]

\* new Date(appointmentDetails.dateTime).toISOString() throws a RangeError
\* when the string is not a date; it is evaluated while the
\* appointment_booked payload is built, before triggerN8nWebhook is called
PayloadThrows(intent, details, result, lead) ==
  /\ EventType(intent, details, result, lead) = "appointment_booked"
  /\ details.args.dateTime \notin ParsableDates

\* a finalizer without the guard
NeverSent(sent) == FALSE

\* if (webhookSent) break
AlreadySent(sent) == sent

\* a stop handler that runs only when no tool call is waiting
StopAfterToolCalls ==
  /\ CanDeliver /\ wsState = "open"
  /\ \A i \in 1..Len(calls) : calls[i].pc \notin {"sms", "backend"}
  /\ stopsIn' = stopsIn + 1
  /\ UNCHANGED acksIn
  /\ IF AlreadySent(webhookSent)
       THEN UNCHANGED << webhookSent, n8n, stopPc >>
       ELSE /\ webhookSent' = TRUE
            /\ IF PayloadThrows(appointmentIntent, appointmentDetails,
                                appointmentResult, capturedLeadInfo)
                 THEN /\ stopPc' = "failed"
                      /\ UNCHANGED n8n
                 ELSE /\ stopPc' = "webhook"
                      /\ n8n' = Append(n8n,
                           OutcomeEvent(appointmentIntent, appointmentDetails,
                                        appointmentResult, capturedLeadInfo,
                                        fromPhoneNumber, callSid, userId,
                                        conversationTranscript))
  /\ UNCHANGED << wsState, callSid, streamSid, fromPhoneNumber, userId, openaiWs, chan,
                  capturedLeadInfo, appointmentIntent, appointmentDetails,
                  appointmentResult, conversationTranscript, startTasks, calls,
                  twilioOut, mediaIn, deltaIn, crashed >>
  /\ UNCHANGED << delivery, malformed, serverVars, orderLookup >>

\* the stop event: a no-op when the guard is set; otherwise the guard is
\* set, the outcome is selected and handed to triggerN8nWebhook, and the
\* handler awaits the webhook request
OnStop ==
  /\ wsState = "open"
  /\ stopsIn' = stopsIn + 1
  /\ UNCHANGED acksIn
  /\ IF AlreadySent(webhookSent)
       THEN UNCHANGED << webhookSent, n8n, stopPc >>
       ELSE /\ webhookSent' = TRUE
            /\ IF PayloadThrows(appointmentIntent, appointmentDetails,
                                appointmentResult, capturedLeadInfo)
                 THEN /\ stopPc' = "failed"
                      /\ UNCHANGED n8n
                 ELSE /\ stopPc' = "webhook"
                      /\ n8n' = Append(n8n,
                           OutcomeEvent(appointmentIntent, appointmentDetails,
                                        appointmentResult, capturedLeadInfo,
                                        fromPhoneNumber, callSid, userId,
                                        conversationTranscript))
  /\ UNCHANGED << wsState, callSid, streamSid, fromPhoneNumber, userId, openaiWs, chan,
                  capturedLeadInfo, appointmentIntent, appointmentDetails,
                  appointmentResult, conversationTranscript, startTasks, calls,
                  twilioOut, mediaIn, deltaIn, crashed >>
  /\ UNCHANGED << delivery, malformed, serverVars, orderLookup >>

\* a stop event is delivered
Stop == CanDeliver /\ OnStop

\* what triggerN8nWebhook returns: success, or a failure because
\* N8N_WEBHOOK_URL is not set, the response is not OK, or fetch threw
WebhookResults == {"ok", "not_configured", "not_ok", "throw"}

DeliveryFailed(result) == result \in {"not_configured", "not_ok", "throw"}

\* a finalizer that clears the guard when the delivery failed
StopWebhookDoneReopening(result) ==
  /\ ~crashed
  /\ stopPc = "webhook"
  /\ delivery' = [result |-> result, stops |-> stopsIn]
  /\ webhookSent' = ~DeliveryFailed(result)
  /\ IF userId # 0 /\ callSid # 0
       THEN /\ stopPc' = "patch"
            /\ UNCHANGED chan
       ELSE /\ stopPc' = "done"
            /\ chan' = OpenaiClose(openaiWs, chan)
  /\ UNCHANGED << wsState, callSid, streamSid, fromPhoneNumber, userId, openaiWs,
                  capturedLeadInfo, appointmentIntent, appointmentDetails,
                  appointmentResult, conversationTranscript, startTasks, calls, n8n,
                  twilioOut, mediaIn, deltaIn, crashed, stopsIn, acksIn >>
  /\ UNCHANGED << malformed, serverVars, orderLookup >>

\* triggerN8nWebhook settled, with a result the stop handler does not look
\* at: with a tenant and a call id the handler awaits the PATCH of the call
\* record, otherwise it closes the AI channel
StopWebhookDone(result) ==
  /\ ~crashed
  /\ stopPc = "webhook"
  /\ delivery' = [result |-> result, stops |-> stopsIn]
  /\ IF userId # 0 /\ callSid # 0
       THEN /\ stopPc' = "patch"
            /\ UNCHANGED chan
       ELSE /\ stopPc' = "done"
            /\ chan' = OpenaiClose(openaiWs, chan)
  /\ UNCHANGED << wsState, callSid, streamSid, fromPhoneNumber, userId, openaiWs,
                  webhookSent, capturedLeadInfo, appointmentIntent, appointmentDetails,
                  appointmentResult, conversationTranscript, startTasks, calls, n8n,
                  twilioOut, mediaIn, deltaIn, crashed, stopsIn, acksIn >>
  /\ UNCHANGED << malformed, serverVars, orderLookup >>

\* the PATCH settled (its failure is only logged): if (openaiWs) openaiWs.close()
StopPatchDone ==
  /\ ~crashed
  /\ stopPc = "patch"
  /\ stopPc' = "done"
  /\ chan' = OpenaiClose(openaiWs, chan)
  /\ UNCHANGED << wsState, callSid, streamSid, fromPhoneNumber, userId, openaiWs,
                  webhookSent, capturedLeadInfo, appointmentIntent, appointmentDetails,
                  appointmentResult, conversationTranscript, startTasks, calls, n8n,
                  twilioOut, mediaIn, deltaIn, crashed, stopsIn, acksIn >>
  /\ UNCHANGED << delivery, malformed, serverVars, orderLookup >>

----------------------------------------------------------------------------
(* Telephony: ws.on('close') *)

\* the telephony connection closes: activeSessions.delete(sessionId);
\* if (openaiWs) openaiWs.close()
TwilioClose ==
  /\ ~crashed
  /\ wsState = "open"
  /\ wsState' = "closed"
  /\ activeSessions' = activeSessions \ {sessionId}
  /\ chan' = OpenaiClose(openaiWs, chan)
  /\ UNCHANGED << callSid, streamSid, fromPhoneNumber, userId, openaiWs,
                  webhookSent, capturedLeadInfo, appointmentIntent, appointmentDetails,
                  appointmentResult, conversationTranscript, startTasks, stopPc, calls,
                  n8n, twilioOut, mediaIn, deltaIn, crashed, stopsIn, acksIn >>
  /\ UNCHANGED << delivery, malformed, sessions, now, orderLookup >>

----------------------------------------------------------------------------
(* AI channel: connection events of channel k *)

\* session.update, with the instructions buildAIInstructions makes of the
\* settings (of null: the default business name and hours)
SessionUpdate(settings) == Msg("session.update", settings, FALSE)
ResponseCreate == Msg("response.create", 0, FALSE)

\* an 'open' listener that asks for the greeting along with the configuration
AiOpenGreeting(k) ==
  /\ ~crashed
  /\ k \in 1..Len(chan) /\ chan[k].st = "connecting"
  /\ LET opened == [chan EXCEPT ![k].st = "open"]
     IN /\ chan' = OpenaiSend(openaiWs, opened, << SessionUpdate(chan[k].settings), ResponseCreate >>)
        /\ crashed' = SendThrows(openaiWs, opened)
  /\ UNCHANGED << wsState, callSid, streamSid, fromPhoneNumber, userId, openaiWs,
                  webhookSent, capturedLeadInfo, appointmentIntent, appointmentDetails,
                  appointmentResult, conversationTranscript, startTasks, stopPc, calls,
                  n8n, twilioOut, mediaIn, deltaIn, stopsIn, acksIn >>
  /\ UNCHANGED << delivery, malformed, serverVars, orderLookup >>

\* an 'open' listener that sends no configuration
AiOpenUnconfigured(k) ==
  /\ ~crashed
  /\ k \in 1..Len(chan) /\ chan[k].st = "connecting"
  /\ chan' = [chan EXCEPT ![k].st = "open"]
  /\ UNCHANGED << wsState, callSid, streamSid, fromPhoneNumber, userId, openaiWs,
                  webhookSent, capturedLeadInfo, appointmentIntent, appointmentDetails,
                  appointmentResult, conversationTranscript, startTasks, stopPc, calls,
                  n8n, twilioOut, mediaIn, deltaIn, crashed, stopsIn, acksIn >>
  /\ UNCHANGED << delivery, malformed, serverVars, orderLookup >>

\* openaiWs.on('open'): the session configuration (built from the settings
\* of this listener) is sent on the socket the variable openaiWs names at
\* that time.  The listener has no try/catch:
\* when that socket is still CONNECTING, send throws out of the listener.
AiOpen(k) ==
  /\ ~crashed
  /\ k \in 1..Len(chan) /\ chan[k].st = "connecting"
  /\ LET opened == [chan EXCEPT ![k].st = "open"]
     IN /\ chan' = OpenaiSend(openaiWs, opened, << SessionUpdate(chan[k].settings) >>)
        /\ crashed' = SendThrows(openaiWs, opened)
  /\ UNCHANGED << wsState, callSid, streamSid, fromPhoneNumber, userId, openaiWs,
                  webhookSent, capturedLeadInfo, appointmentIntent, appointmentDetails,
                  appointmentResult, conversationTranscript, startTasks, stopPc, calls,
                  n8n, twilioOut, mediaIn, deltaIn, stopsIn, acksIn >>
  /\ UNCHANGED << delivery, malformed, serverVars, orderLookup >>

\* the AI endpoint refuses the connection, or closes or fails an open one:
\* openaiWs.on('error') logs, and there is no 'close' listener
AiPeerClose(k) ==
  /\ ~crashed
  /\ k \in 1..Len(chan) /\ chan[k].st \in {"connecting", "open"}
  /\ chan' = [chan EXCEPT ![k].st = "closed", ![k].by = "peer"]
  /\ UNCHANGED << wsState, callSid, streamSid, fromPhoneNumber, userId, openaiWs,
                  webhookSent, capturedLeadInfo, appointmentIntent, appointmentDetails,
                  appointmentResult, conversationTranscript, startTasks, stopPc, calls,
                  n8n, twilioOut, mediaIn, deltaIn, crashed, stopsIn, acksIn >>
  /\ UNCHANGED << delivery, malformed, serverVars, orderLookup >>

\* the closing handshake, or the abort, started by openaiWs.close() completes
AiClosed(k) ==
  /\ ~crashed
  /\ k \in 1..Len(chan) /\ chan[k].st \in {"closing", "aborting"}
  /\ chan' = [chan EXCEPT ![k].st = "closed"]
  /\ UNCHANGED << wsState, callSid, streamSid, fromPhoneNumber, userId, openaiWs,
                  webhookSent, capturedLeadInfo, appointmentIntent, appointmentDetails,
                  appointmentResult, conversationTranscript, startTasks, stopPc, calls,
                  n8n, twilioOut, mediaIn, deltaIn, crashed, stopsIn, acksIn >>
  /\ UNCHANGED << delivery, malformed, serverVars, orderLookup >>

----------------------------------------------------------------------------
(* AI channel: openaiWs.on('message') of channel k *)

\* a listener that handles no event while a tool call is being dispatched
ReceivesUnlessDispatching(k) ==
  /\ k \in 1..Len(chan) /\ chan[k].st \in {"open", "closing"}
  /\ \A i \in 1..Len(calls) : calls[i].pc \notin {"sms", "backend"}

\* a socket emits messages while it is OPEN and, after close() was called
\* on it, until the closing handshake completes
Receives(k) == k \in 1..Len(chan) /\ chan[k].st \in {"open", "closing"}

Configured(k) ==
  \E i \in 1..Len(chan[k].out) : chan[k].out[i].type = "session.update"

\* session.updated (the endpoint acknowledges a configuration it received):
\* the greeting turn is requested
SessionUpdated(k) ==
  /\ CanDeliver /\ Receives(k) /\ Configured(k)
  /\ chan' = OpenaiSend(openaiWs, chan, << ResponseCreate >>)
  /\ acksIn' = acksIn + 1
  /\ UNCHANGED stopsIn
  /\ UNCHANGED << wsState, callSid, streamSid, fromPhoneNumber, userId, openaiWs,
                  webhookSent, capturedLeadInfo, appointmentIntent, appointmentDetails,
                  appointmentResult, conversationTranscript, startTasks, stopPc, calls,
                  n8n, twilioOut, mediaIn, deltaIn, crashed >>
  /\ UNCHANGED << delivery, malformed, serverVars, orderLookup >>

\* response.audio.delta with a payload, numbered in the order of arrival
AudioDelta(k) ==
  /\ CanDeliver /\ Receives(k)
  /\ deltaIn' = deltaIn + 1
  /\ twilioOut' = WsSend(wsState, twilioOut,
                         [delta |-> deltaIn + 1, streamSid |-> streamSid, ch |-> k])
  /\ UNCHANGED << stopsIn, acksIn >>
  /\ UNCHANGED << wsState, callSid, streamSid, fromPhoneNumber, userId, openaiWs, chan,
                  webhookSent, capturedLeadInfo, appointmentIntent, appointmentDetails,
                  appointmentResult, conversationTranscript, startTasks, stopPc, calls,
                  n8n, mediaIn, crashed >>
  /\ UNCHANGED << delivery, malformed, serverVars, orderLookup >>

\* a listener that keeps only the last transcript
TranscriptReplacing(k, speaker) ==
  /\ CanDeliver /\ Receives(k)
  /\ conversationTranscript' =
       << [speaker |-> speaker, text |-> Len(conversationTranscript) + 1] >>
  /\ UNCHANGED << stopsIn, acksIn >>
  /\ UNCHANGED << wsState, callSid, streamSid, fromPhoneNumber, userId, openaiWs, chan,
                  webhookSent, capturedLeadInfo, appointmentIntent, appointmentDetails,
                  appointmentResult, startTasks, stopPc, calls, n8n, twilioOut,
                  mediaIn, deltaIn, crashed >>
  /\ UNCHANGED << delivery, malformed, serverVars, orderLookup >>

\* conversation.item.input_audio_transcription.completed ("Customer") and
\* response.audio_transcript.done ("Krystle")
Transcript(k, speaker) ==
  /\ CanDeliver /\ Receives(k)
  /\ conversationTranscript' =
       Append(conversationTranscript,
              [speaker |-> speaker, text |-> Len(conversationTranscript) + 1])
  /\ UNCHANGED << stopsIn, acksIn >>
  /\ UNCHANGED << wsState, callSid, streamSid, fromPhoneNumber, userId, openaiWs, chan,
                  webhookSent, capturedLeadInfo, appointmentIntent, appointmentDetails,
                  appointmentResult, startTasks, stopPc, calls, n8n, twilioOut,
                  mediaIn, deltaIn, crashed >>
  /\ UNCHANGED << delivery, malformed, serverVars, orderLookup >>

----------------------------------------------------------------------------
(* Events that no handler serves *)

\* a telephony message that is not JSON (JSON.parse throws), names an event
\* the switch has no case for (connected, mark, dtmf, ...), or is a start
\* event without its start object (msg.start.streamSid throws before
\* anything is assigned)
TwilioMalformedKinds == {"unparseable", "unknown_event", "start_without_payload"}

\* an AI message that is not JSON, or has a type none of the tests names
\* (session.created, response.created, ...)
AiMalformedKinds == {"unparseable", "unknown_type"}

\* the kinds that make the listener throw
Throws(kind) == kind \in {"unparseable", "start_without_payload"}

\* a telephony listener without the try/catch around its body
TwilioMalformedUncaught(kind) ==
  /\ CanDeliver /\ wsState = "open"
  /\ malformed' = [n |-> malformed.n + 1, at |-> Events + 1]
  /\ crashed' = Throws(kind)
  /\ UNCHANGED << wsState, callSid, streamSid, fromPhoneNumber, userId, openaiWs, chan,
                  webhookSent, capturedLeadInfo, appointmentIntent, appointmentDetails,
                  appointmentResult, conversationTranscript, startTasks, stopPc, calls,
                  n8n, twilioOut, mediaIn, deltaIn, stopsIn, acksIn >>
  /\ UNCHANGED << delivery, serverVars, orderLookup >>

\* ws.on('message') with a malformed message: what is thrown is caught and
\* logged by the catch of the listener, an unknown event leaves the switch
TwilioMalformed(kind) ==
  /\ CanDeliver /\ wsState = "open"
  /\ malformed' = [n |-> malformed.n + 1, at |-> Events + 1]
  /\ UNCHANGED << wsState, callSid, streamSid, fromPhoneNumber, userId, openaiWs, chan,
                  webhookSent, capturedLeadInfo, appointmentIntent, appointmentDetails,
                  appointmentResult, conversationTranscript, startTasks, stopPc, calls,
                  n8n, twilioOut, mediaIn, deltaIn, crashed, stopsIn, acksIn >>
  /\ UNCHANGED << delivery, serverVars, orderLookup >>

\* openaiWs.on('message') of channel k with a malformed message
AiMalformed(k, kind) ==
  /\ CanDeliver /\ Receives(k)
  /\ malformed' = [n |-> malformed.n + 1, at |-> Events + 1]
  /\ UNCHANGED << wsState, callSid, streamSid, fromPhoneNumber, userId, openaiWs, chan,
                  webhookSent, capturedLeadInfo, appointmentIntent, appointmentDetails,
                  appointmentResult, conversationTranscript, startTasks, stopPc, calls,
                  n8n, twilioOut, mediaIn, deltaIn, crashed, stopsIn, acksIn >>
  /\ UNCHANGED << delivery, serverVars, orderLookup >>

----------------------------------------------------------------------------
(* Tool dispatcher: handleFunctionCall *)

\* a merge in which new notes replace the stored notes
MergeLeadReplacingNotes(lead, args) ==
  [name |-> IF args.name # NULL THEN args.name ELSE lead.name,
   email |-> IF args.email # NULL THEN args.email ELSE lead.email,
   phone |-> IF args.phone # NULL THEN args.phone ELSE lead.phone,
   notes |-> IF args.notes # NULL THEN << args.notes >> ELSE lead.notes,
   smsConsent |-> IF args.smsConsent # "undefined"
                    THEN args.smsConsent = "true" ELSE lead.smsConsent]

\* capture_lead_info: the merge into capturedLeadInfo
MergeLead(lead, args) ==
  [name |-> IF args.name # NULL THEN args.name ELSE lead.name,
   email |-> IF args.email # NULL THEN args.email ELSE lead.email,
   phone |-> IF args.phone # NULL THEN args.phone ELSE lead.phone,
   notes |-> IF args.notes # NULL THEN Append(lead.notes, args.notes) ELSE lead.notes,
   smsConsent |-> IF args.smsConsent # "undefined"
                    THEN args.smsConsent = "true" ELSE lead.smsConsent]

\* the conditions of the two sendSMS calls
LeadSms(lead, from) == Or(lead.phone, from) # NULL /\ lead.smsConsent

BookSms(args, lead, from) ==
  Or(lead.phone, from) # NULL /\ args.smsConsent = "true" /\ args.dateTime # NULL

\* a dispatcher that asks the backend whether or not it holds a tenant id
NextAwaitWithoutTenant(functionName, args, lead, from, uid, csid, at) ==
  CASE functionName = "capture_lead_info" ->
         IF at = "entry" /\ LeadSms(lead, from) THEN "sms"
         ELSE IF uid # 0 /\ csid # 0 THEN "backend" ELSE "return"
    [] functionName = "book_appointment" ->
         IF at = "entry" /\ BookSms(args, lead, from) THEN "sms"
         ELSE "backend"
    [] functionName = "lookup_order_status" -> "backend"
    [] OTHER -> "return"

\* the await the handler reaches next: after its synchronous entry
\* (at = "entry") or after its sendSMS settled (at = "sms")
NextAwait(functionName, args, lead, from, uid, csid, at) ==
  CASE functionName = "capture_lead_info" ->
         IF at = "entry" /\ LeadSms(lead, from) THEN "sms"
         ELSE IF uid # 0 /\ csid # 0 THEN "backend" ELSE "return"
    [] functionName = "book_appointment" ->
         IF at = "entry" /\ BookSms(args, lead, from) THEN "sms"
         ELSE IF uid # 0 /\ csid # 0 THEN "backend" ELSE "return"
    [] functionName = "lookup_order_status" -> "backend"
    [] OTHER -> "return"

\* appointmentResult after the backend answered the booking request of call i
BookingResult(i, resp) ==
  CASE resp = "ok_id" -> [isNull |-> FALSE, appointmentId |-> i]
    [] resp = "ok_noid" -> [isNull |-> FALSE, appointmentId |-> 0]
    [] OTHER -> NoResult

\* a result that succeeds only when the backend request did
SuccessWhenBackendOk(functionName, resp) == resp \in {"ok_id", "ok_noid"}

\* the success flag of the result returned after a backend request
SuccessAfterBackend(functionName, resp) ==
  CASE functionName = "capture_lead_info" -> TRUE
    [] functionName = "book_appointment" -> resp \in {"ok_id", "ok_noid"}
    [] OTHER -> resp = "ok_id"

\* a dispatcher that answers every call it cannot serve with success
SuccessWithoutBackendAlways(functionName) == TRUE

\* the success flag of the result returned without a backend request
SuccessWithoutBackend(functionName) == functionName = "capture_lead_info"

\* appointmentIntent after the entry of handleFunctionCall, when no booking
\* declares the intent
IntentKept(functionName, intent) == intent

\* appointmentIntent after the entry of handleFunctionCall: book_appointment
\* sets it before anything else
IntentAfter(functionName, intent) ==
  IF functionName = "book_appointment" THEN TRUE ELSE intent

\* a reply without the trigger of a new turn
ToolReplyWithoutTrigger(i, success) == << Msg("function_call_output", i, success) >>

\* the two sends that follow handleFunctionCall: the tool output of call i,
\* then the trigger of a new turn
ToolReply(i, success) == << Msg("function_call_output", i, success), ResponseCreate >>

\* the backend answers that handleFunctionCall takes for a failure of the
\* request: a response that is not OK, or an error thrown by fetch
RequestFailed(resp) == resp \in {"not_ok", "throw"}

\* the record of a handler that has ended (its locals are gone): it
\* returned a result with this success flag, or its event was dropped.
\* (Two fields are history, not program state: failed tells that an
\* external request of the handler failed, and mediaSeen of a suspended
\* handler is the number of media frames received before the tool call.)
Returned(functionName, how, success, failed) ==
  [name |-> functionName, args |-> NoArgs,
   pc |-> IF how = "return" THEN "done" ELSE "dropped", success |-> success,
   failed |-> failed, mediaSeen |-> 0]

\* response.function_call_arguments.done on channel k.  JSON.parse of the
\* arguments may throw (parses = FALSE): the event is then dropped by the
\* catch of the listener.  Otherwise handleFunctionCall runs to its first
\* await, or to its end when it has none.
OnToolCall(k, functionName, args, parses) ==
  /\ Receives(k)
  /\ UNCHANGED << stopsIn, acksIn >>
  /\ LET i == Len(calls) + 1
         lead == IF parses /\ functionName = "capture_lead_info"
                   THEN MergeLead(capturedLeadInfo, args) ELSE capturedLeadInfo
         next == IF parses
                   THEN NextAwait(functionName, args, lead, fromPhoneNumber,
                                  userId, callSid, "entry")
                   ELSE "dropped"
     IN /\ calls' = Append(calls,
             IF next \in {"return", "dropped"}
               THEN Returned(functionName, next,
                             next = "return" /\ SuccessWithoutBackend(functionName),
                             FALSE)
               ELSE [name |-> functionName, args |-> args, pc |-> next,
                     success |-> FALSE, failed |-> FALSE, mediaSeen |-> mediaIn])
        /\ capturedLeadInfo' = lead
        /\ appointmentIntent' =
             IF parses THEN IntentAfter(functionName, appointmentIntent)
                       ELSE appointmentIntent
        /\ IF parses /\ functionName = "book_appointment"
             THEN /\ appointmentDetails' = [isNull |-> FALSE, args |-> args]
                  /\ appointmentResult' =
                       IF next = "return" THEN NoResult ELSE appointmentResult
             ELSE UNCHANGED << appointmentDetails, appointmentResult >>
        /\ chan' = IF next = "return"
                     THEN OpenaiSend(openaiWs, chan,
                                     ToolReply(i, SuccessWithoutBackend(functionName)))
                     ELSE chan
  /\ UNCHANGED << wsState, callSid, streamSid, fromPhoneNumber, userId, openaiWs,
                  webhookSent, conversationTranscript, startTasks, stopPc, n8n,
                  twilioOut, mediaIn, deltaIn, crashed >>
  /\ UNCHANGED << delivery, malformed, serverVars, orderLookup >>

\* a completed tool call is delivered on channel k
ToolCall(k, functionName, args, parses) == CanDeliver /\ OnToolCall(k, functionName, args, parses)

\* the sendSMS of call i settled: the message was sent, or sending failed
\* and sendSMS caught the error (the handler ignores what sendSMS returns)
ToolSmsDone(i, sent) ==
  /\ ~crashed
  /\ i \in 1..Len(calls) /\ calls[i].pc = "sms"
  /\ LET c == calls[i]
         next == NextAwait(c.name, c.args, capturedLeadInfo, fromPhoneNumber,
                           userId, callSid, "sms")
     IN /\ calls' = [calls EXCEPT ![i] =
             IF next = "return"
               THEN Returned(c.name, next, SuccessWithoutBackend(c.name), ~sent)
               ELSE [c EXCEPT !.pc = next, !.failed = ~sent]]
        /\ appointmentResult' =
             IF next = "return" /\ c.name = "book_appointment"
               THEN NoResult ELSE appointmentResult
        /\ chan' = IF next = "return"
                     THEN OpenaiSend(openaiWs, chan,
                                     ToolReply(i, SuccessWithoutBackend(c.name)))
                     ELSE chan
  /\ UNCHANGED << wsState, callSid, streamSid, fromPhoneNumber, userId, openaiWs,
                  webhookSent, capturedLeadInfo, appointmentIntent, appointmentDetails,
                  conversationTranscript, startTasks, stopPc, n8n, twilioOut,
                  mediaIn, deltaIn, crashed, stopsIn, acksIn >>
  /\ UNCHANGED << delivery, malformed, serverVars, orderLookup >>

\* a handler out of which the errors of the backend request escape: the
\* listener drops the event and answers nothing
ToolBackendDoneUncaught(i, resp) ==
  /\ ~crashed
  /\ i \in 1..Len(calls) /\ calls[i].pc = "backend"
  /\ LET raises == resp \in {"ok_noid", "throw"}
     IN /\ calls' = [calls EXCEPT ![i] =
                IF raises
                  THEN Returned(calls[i].name, "raise", FALSE, TRUE)
                  ELSE Returned(calls[i].name, "return",
                                SuccessAfterBackend(calls[i].name, resp),
                                calls[i].failed \/ RequestFailed(resp))]
        /\ appointmentResult' =
             IF calls[i].name = "book_appointment" /\ ~raises
               THEN BookingResult(i, resp) ELSE appointmentResult
        /\ chan' = IF raises THEN chan
                   ELSE OpenaiSend(openaiWs, chan,
                          ToolReply(i, SuccessAfterBackend(calls[i].name, resp)))
  /\ UNCHANGED << wsState, callSid, streamSid, fromPhoneNumber, userId, openaiWs,
                  webhookSent, capturedLeadInfo, appointmentIntent, appointmentDetails,
                  conversationTranscript, startTasks, stopPc, n8n, twilioOut,
                  mediaIn, deltaIn, crashed, stopsIn, acksIn >>
  /\ UNCHANGED << delivery, malformed, serverVars, orderLookup >>

\* the backend request of call i settled with resp: an error thrown by the
\* request, or by reading a body that lacks what is expected, is caught
\* inside handleFunctionCall
ToolBackendDone(i, resp) ==
  /\ ~crashed
  /\ i \in 1..Len(calls) /\ calls[i].pc = "backend"
  /\ calls' = [calls EXCEPT ![i] =
                  Returned(calls[i].name, "return",
                           SuccessAfterBackend(calls[i].name, resp),
                           calls[i].failed \/ RequestFailed(resp))]
  /\ appointmentResult' =
       IF calls[i].name = "book_appointment"
         THEN BookingResult(i, resp) ELSE appointmentResult
  /\ chan' = OpenaiSend(openaiWs, chan,
                        ToolReply(i, SuccessAfterBackend(calls[i].name, resp)))
  /\ UNCHANGED << wsState, callSid, streamSid, fromPhoneNumber, userId, openaiWs,
                  webhookSent, capturedLeadInfo, appointmentIntent, appointmentDetails,
                  conversationTranscript, startTasks, stopPc, n8n, twilioOut,
                  mediaIn, deltaIn, crashed, stopsIn, acksIn >>
  /\ UNCHANGED << delivery, malformed, serverVars, orderLookup >>

----------------------------------------------------------------------------
(* The session *)

Channels == 1..Len(chan)
Tasks == 1..Len(calls)

Next ==
  \/ Start
  \/ \E t \in 1..Len(startTasks) : \E uid \in {0, 1} : StartSettings(t, uid)
  \/ \E t \in 1..Len(startTasks) : StartLog(t)
  \/ Media
  \/ Stop
  \/ \E result \in WebhookResults : StopWebhookDone(result)
  \/ StopPatchDone
  \/ \E kind \in TwilioMalformedKinds : TwilioMalformed(kind)
  \/ TwilioClose
  \/ \E k \in Channels : AiOpen(k)
  \/ \E k \in Channels : AiPeerClose(k)
  \/ \E k \in Channels : AiClosed(k)
  \/ \E k \in Channels : SessionUpdated(k)
  \/ \E k \in Channels : AudioDelta(k)
  \/ \E k \in Channels : \E kind \in AiMalformedKinds : AiMalformed(k, kind)
  \/ \E k \in Channels : \E speaker \in {"Customer", "Krystle"} : Transcript(k, speaker)
  \/ \E k \in Channels : \E functionName \in ToolNames :
       \E args \in ArgsOf(functionName) : ToolCall(k, functionName, args, TRUE)
  \/ \E k \in Channels : ToolCall(k, "capture_lead_info", NoArgs, FALSE)
  \/ \E i \in Tasks : \E sent \in BOOLEAN : ToolSmsDone(i, sent)
  \/ \E i \in Tasks : \E resp \in BackendResponses : ToolBackendDone(i, resp)

Spec == Init /\ [][Next]_vars

----------------------------------------------------------------------------
(* Several connections.  Every connection runs the handlers above in a    *)
(* closure of its own; here each handler is one step (its awaits are      *)
(* taken to the end within the step), so that several closures, the       *)
(* registry and the clock fit into one state.                             *)

\* Math.floor(ms / 1000)
MsPerSecond == 1000

\* the step of the clock
HalfSecond == MsPerSecond \div 2

\* durationSec = Math.floor((new Date() - callStartTime) / 1000)
DurationSec(from, to) == (to - from) \div MsPerSecond

\* duration: appointmentDetails.duration || 30 (no booking of the model
\* names a duration)
DefaultAppointmentMinutes == 30

\* the duration field of a payload: ...base carries durationSec, and the
\* appointment_booked payload sets duration again after the spread
Duration(eventType, durationSec) ==
  IF eventType = "appointment_booked" THEN DefaultAppointmentMinutes ELSE durationSec

\* the closure c after the start handler of connection s ran to its end at
\* time t: the ids of the stream, the caller number and the tenant the
\* lookup found (uid = 0: none)
StartHandled(c, s, uid, t) ==
  [c EXCEPT !.callSid = s, !.streamSid = s, !.fromPhoneNumber = CallerNumber,
            !.userId = uid,
            !.startedAt = IF @ = Never THEN t ELSE @,
            !.events = @ + 1]

\* the closure c after handleFunctionCall ran to its end, the backend
\* having answered resp where the handler asks it
ToolCallHandled(c, functionName, args, resp) ==
  [c EXCEPT
     !.capturedLeadInfo =
        IF functionName = "capture_lead_info" THEN MergeLead(@, args) ELSE @,
     !.appointmentIntent = IntentAfter(functionName, @),
     !.appointmentDetails =
        IF functionName = "book_appointment"
          THEN [isNull |-> FALSE, args |-> args] ELSE @,
     !.appointmentResult =
        IF functionName = "book_appointment"
          THEN IF c.userId # 0 /\ c.callSid # 0
                 THEN BookingResult(c.events + 1, resp) ELSE NoResult
          ELSE @,
     !.events = @ + 1]

TranscriptHandled(c, speaker) ==
  [c EXCEPT
     !.conversationTranscript =
        Append(@, [speaker |-> speaker, text |-> Len(@) + 1]),
     !.events = @ + 1]

\* the payload the stop handler builds from the closure c at time t
SessionOutcome(c, t) ==
  LET e == OutcomeEvent(c.appointmentIntent, c.appointmentDetails,
                        c.appointmentResult, c.capturedLeadInfo,
                        c.fromPhoneNumber, c.callSid, c.userId,
                        c.conversationTranscript)
  IN e @@ [duration |-> Duration(e.eventType, DurationSec(c.callStartTime, t))]

\* the closure c after the stop handler ran to its end at time t
StopHandled(c, t) ==
  IF AlreadySent(c.webhookSent)
    THEN [c EXCEPT !.events = @ + 1]
    ELSE [c EXCEPT
            !.webhookSent = TRUE,
            !.stoppedAt = t,
            !.n8n = IF PayloadThrows(c.appointmentIntent, c.appointmentDetails,
                                     c.appointmentResult, c.capturedLeadInfo)
                      THEN @ ELSE Append(@, SessionOutcome(c, t)),
            !.events = @ + 1]

\* wss.on('connection'): a new closure, and its entry in the registry
Connection(s) ==
  /\ sessions[s].ws = "none"
  /\ sessions' = [sessions EXCEPT
                    ![s] = [NoSession EXCEPT !.ws = "open", !.callStartTime = now]]
  /\ activeSessions' = activeSessions \cup {s}
  /\ UNCHANGED << now, connectionVars, orderLookup >>

\* a ws.on('close') that leaves the registry alone, as in the earlier
\* version (src/unnamed/part_000:581-583)
SessionCloseKeepingEntry(s) ==
  /\ sessions[s].ws = "open"
  /\ sessions' = [sessions EXCEPT ![s].ws = "closed"]
  /\ UNCHANGED << activeSessions, now, connectionVars, orderLookup >>

\* ws.on('close'): activeSessions.delete(sessionId)
SessionClose(s) ==
  /\ sessions[s].ws = "open"
  /\ sessions' = [sessions EXCEPT ![s].ws = "closed"]
  /\ activeSessions' = activeSessions \ {s}
  /\ UNCHANGED << now, connectionVars, orderLookup >>

\* the events the connections of S have received
RECURSIVE EventsOf(_)
EventsOf(S) ==
  IF S = {} THEN 0
  ELSE LET s == CHOOSE x \in S : TRUE
       IN sessions[s].events + EventsOf(S \ {s})

\* connection s can be handed an event
Handles(s) == sessions[s].ws = "open" /\ EventsOf(SessionIds) < MaxSessionEvents

\* its AI channel exists once a start handler has run
HasAiChannel(s) == sessions[s].callSid # 0

SessionStart(s, uid) ==
  /\ Handles(s)
  /\ sessions' = [sessions EXCEPT ![s] = StartHandled(@, s, uid, now)]
  /\ UNCHANGED << activeSessions, now, connectionVars, orderLookup >>

\* a tool call whose lead is kept in one object for all connections, as a
\* capturedLeadInfo declared outside the connection handler would be
SessionToolCallSharedLead(s, functionName, args, resp) ==
  /\ Handles(s) /\ HasAiChannel(s)
  /\ LET after == ToolCallHandled(sessions[s], functionName, args, resp)
     IN sessions' =
          [t \in SessionIds |->
             IF t = s THEN after
             ELSE [sessions[t] EXCEPT !.capturedLeadInfo = after.capturedLeadInfo]]
  /\ UNCHANGED << activeSessions, now, connectionVars, orderLookup >>

SessionToolCall(s, functionName, args, resp) ==
  /\ Handles(s) /\ HasAiChannel(s)
  /\ sessions' = [sessions EXCEPT ![s] = ToolCallHandled(@, functionName, args, resp)]
  /\ UNCHANGED << activeSessions, now, connectionVars, orderLookup >>

SessionTranscript(s, speaker) ==
  /\ Handles(s) /\ HasAiChannel(s)
  /\ sessions' = [sessions EXCEPT ![s] = TranscriptHandled(@, speaker)]
  /\ UNCHANGED << activeSessions, now, connectionVars, orderLookup >>

SessionStop(s) ==
  /\ Handles(s)
  /\ sessions' = [sessions EXCEPT ![s] = StopHandled(@, now)]
  /\ UNCHANGED << activeSessions, now, connectionVars, orderLookup >>

\* time passes
Tick ==
  /\ now < MaxTicks * HalfSecond
  /\ now' = now + HalfSecond
  /\ UNCHANGED << activeSessions, sessions, connectionVars, orderLookup >>

\* the tool calls of the connections followed handler by handler
SessionTools == {"capture_lead_info", "book_appointment"}

SessionArgs(functionName) ==
  IF functionName = "capture_lead_info"
    THEN { [NoArgs EXCEPT !.name = "Ana"], [NoArgs EXCEPT !.notes = "wants a quote"] }
    ELSE { [NoArgs EXCEPT !.customerName = "Lee",
                          !.dateTime = "2025-03-01T10:00:00-05:00",
                          !.purpose = "consult", !.smsConsent = "true"] }

\* the connection followed step by step is open as well; here it receives
\* nothing until it closes
SessionsNext ==
  \/ TwilioClose
  \/ \E s \in SessionIds : Connection(s)
  \/ \E s \in SessionIds : SessionClose(s)
  \/ \E s \in SessionIds : \E uid \in {0, s} : SessionStart(s, uid)
  \/ \E s \in SessionIds : \E functionName \in SessionTools :
       \E args \in SessionArgs(functionName) : \E resp \in {"ok_id", "not_ok"} :
         SessionToolCall(s, functionName, args, resp)
  \/ \E s \in SessionIds : \E speaker \in {"Customer", "Krystle"} :
       SessionTranscript(s, speaker)
  \/ \E s \in SessionIds : SessionStop(s)
  \/ Tick

Sessions == Init /\ [][SessionsNext]_vars

----------------------------------------------------------------------------
(* The order id of lookup_order_status, followed on its own: the first     *)
(* call is made with any text, each later call with the identifier that    *)
(* the answer to the call before it names (server.js:1381).                *)

\* the length of the text given as order id
MaxOrderIdLen == 3

\* the number of lookups that follow each other
MaxLookups == 2

\* the orderId argument is missing
NoOrderId == << NULL >>

\* the order ids a first call is made with
OrderIds ==
  {NoOrderId} \cup UNION { [1..n -> OrderIdChars] : n \in 0..MaxOrderIdLen }

RECURSIVE trimStart(_)
trimStart(s) == IF s # << >> /\ Head(s) = " " THEN trimStart(Tail(s)) ELSE s

RECURSIVE trimEnd(_)
trimEnd(s) ==
  IF s # << >> /\ s[Len(s)] = " " THEN trimEnd(SubSeq(s, 1, Len(s) - 1)) ELSE s

\* String.prototype.trim: whitespace is removed at both ends
trim(s) == trimEnd(trimStart(s))

\* String.prototype.toUpperCase
toUpperCase(s) == [i \in 1..Len(s) |-> IF s[i] = "a" THEN "A" ELSE s[i]]

\* replace(/^#/, ''): one '#' is removed when the text begins with it
stripHash(s) == IF s # << >> /\ Head(s) = "#" THEN Tail(s) ELSE s

\* functionArgs.orderId?.toString().trim().toUpperCase() || '', then
\* replace(/^#/, '')
cleanOrderId(orderId) ==
  stripHash(IF orderId = NoOrderId THEN << >> ELSE toUpperCase(trim(orderId)))

\* lookup_order_status is called: with the text drawn at the start when it
\* is the first call, else with the identifier the call before it made
LookupOrder ==
  /\ orderLookup.n < MaxLookups
  /\ LET orderId == IF orderLookup.n = 0 THEN orderLookup.orderId
                                         ELSE orderLookup.cleanOrderId
     IN orderLookup' = [orderId |-> orderId, cleanOrderId |-> cleanOrderId(orderId),
                        n |-> orderLookup.n + 1]
  /\ UNCHANGED << connectionVars, serverVars >>

LookupsInit ==
  /\ ConnectionInit
  /\ orderLookup \in { [NoLookup EXCEPT !.orderId = id] : id \in OrderIds }

LookupsNext == LookupOrder

Lookups == LookupsInit /\ [][LookupsNext]_vars

----------------------------------------------------------------------------
(* A call in which the AI invokes no tool but book_appointment.  The      *)
(* handlers are those of Spec; the peers deliver start, stop and           *)
(* book_appointment calls only, so that a longer call can be followed.     *)

\* the number of events such a call delivers
MaxBookingEvents == 4

BookingDelivered == ~crashed /\ Events < MaxBookingEvents

BookingsNext ==
  \/ BookingDelivered /\ OnStart
  \/ \E t \in 1..Len(startTasks) : \E uid \in {0, 1} : StartSettings(t, uid)
  \/ \E t \in 1..Len(startTasks) : StartLog(t)
  \/ \E k \in Channels : AiOpen(k)
  \/ \E k \in Channels : \E args \in BookArgs :
       BookingDelivered /\ OnToolCall(k, "book_appointment", args, TRUE)
  \/ \E i \in Tasks : \E sent \in BOOLEAN : ToolSmsDone(i, sent)
  \/ \E i \in Tasks : \E resp \in BackendResponses : ToolBackendDone(i, resp)
  \/ BookingDelivered /\ OnStop
  \/ \E result \in WebhookResults : StopWebhookDone(result)
  \/ StopPatchDone

Bookings == Init /\ [][BookingsNext]_vars

----------------------------------------------------------------------------
(* Vocabulary of the properties *)

\* the step in which the finalizer runs: the guard goes from false to true
Finalizes == ~webhookSent /\ webhookSent'

\* the appointment is confirmed: booking intent, a dateTime and a backend
\* appointment identifier
Confirmed ==
  /\ appointmentIntent
  /\ ~appointmentDetails.isNull /\ appointmentDetails.args.dateTime # NULL
  /\ ~appointmentResult.isNull /\ appointmentResult.appointmentId # 0

LeadGiven ==
  \/ capturedLeadInfo.name # NULL
  \/ capturedLeadInfo.email # NULL
  \/ capturedLeadInfo.notes # << >>

\* handler i of a tool call is suspended at an external request
Waiting(i) == calls[i].pc \in {"sms", "backend"}

BookingFailed(i) ==
  calls[i].name = "book_appointment" /\ calls[i].pc = "done" /\ ~calls[i].success

BookingSucceeded(i) ==
  calls[i].name = "book_appointment" /\ calls[i].pc = "done" /\ calls[i].success

----------------------------------------------------------------------------
(* Properties *)

\* C1: at most one terminal outcome event is dispatched to the automation
\* webhook; the guard goes from false to true once and never back, and
\* once it is set no event (a later stop included) dispatches anything.
C1_AtMostOneOutcome ==
  [][ /\ Len(n8n') <= 1
      /\ webhookSent => (webhookSent' /\ n8n' = n8n) ]_vars

\* C1 witness: two stop events were received and one outcome was dispatched
C1_SecondStopIgnored == stopsIn >= 2 /\ webhookSent /\ Len(n8n) = 1

\* C2 (as claimed): when the current AI channel has been closed by the AI
\* endpoint, the finalization has run (the guard is set), whether or not a
\* telephony stop was received.
C2_AiCloseFinalizes ==
  \A k \in Channels :
    (k = openaiWs /\ chan[k].st = "closed" /\ chan[k].by = "peer") => webhookSent

\* C3: when the finalizer runs after a book_appointment call has failed and
\* none has succeeded, the outcome is not appointment_booked: it is
\* lead_captured when name, email or notes was captured and call_completed
\* otherwise.
C3_FailedBookingNotBooked ==
  [][ ( /\ Finalizes
        /\ \E i \in Tasks : BookingFailed(i)
        /\ \A i \in Tasks : ~BookingSucceeded(i) )
      => ( /\ Len(n8n') = 1
           /\ n8n'[1].eventType =
                IF LeadGiven THEN "lead_captured" ELSE "call_completed" ) ]_vars

\* C3 witness: a booking failed, none succeeded, and the outcome dispatched
\* is call_completed carrying the booking intent
C3_FailedBookingCompleted ==
  /\ \E i \in Tasks : BookingFailed(i)
  /\ \A i \in Tasks : calls[i].name = "book_appointment" => BookingFailed(i)
  /\ Len(n8n) = 1
  /\ n8n[1].eventType = "call_completed" /\ n8n[1].bookingIntent

\* C4 (as claimed): the finalizer emits exactly one event, whose kind is
\* appointment_booked iff the appointment is confirmed, otherwise
\* lead_captured iff name, email or notes is non-empty, otherwise
\* call_completed.
C4_StrictPrecedence ==
  [][ Finalizes
      => ( /\ Len(n8n') = Len(n8n) + 1
           /\ n8n'[Len(n8n')].eventType =
                IF Confirmed THEN "appointment_booked"
                ELSE IF LeadGiven THEN "lead_captured" ELSE "call_completed" ) ]_vars

\* C5: when the finalizer runs with notes captured, no name, no email and no
\* confirmed appointment, the outcome is lead_captured.
C5_NotesOnlyIsLead ==
  [][ ( /\ Finalizes
        /\ capturedLeadInfo.name = NULL /\ capturedLeadInfo.email = NULL
        /\ capturedLeadInfo.notes # << >>
        /\ ~Confirmed )
      => ( Len(n8n') = 1 /\ n8n'[1].eventType = "lead_captured" ) ]_vars

\* C5 witness: a lead_captured outcome with no name and no email, whose
\* summary is the captured notes
C5_NotesOnlyOutcome ==
  /\ Len(n8n) = 1 /\ n8n[1].eventType = "lead_captured"
  /\ n8n[1].customerName = "Unknown" /\ n8n[1].customerEmail = ""
  /\ n8n[1].summary # << >>

\* the audio-append commands of a channel's output, in the order sent
Frames(out) == SelectSeq(out, LAMBDA m : m.type = "input_audio_buffer.append")

InOrder(out) ==
  \A i, j \in 1..Len(Frames(out)) : i < j => Frames(out)[i].id < Frames(out)[j].id

\* C6 (as claimed): every media frame received after the start event is
\* forwarded to the AI channel as the next audio-append command.
C6_EveryFrameAfterStartForwarded ==
  [][ (mediaIn' = mediaIn + 1 /\ Len(startTasks) > 0)
      => \E k \in Channels :
           chan'[k].out = Append(chan[k].out, AudioAppend(mediaIn + 1)) ]_vars

\* C6 (amended): a media frame received while the current AI channel is
\* open is forwarded to it as the next audio-append command, a frame
\* received at any other time (before start, while the channel is still
\* connecting, once it is closing or closed) is dropped, and the
\* audio-append commands of every channel are in the order the frames were
\* received.
C6_OpenChannelForwardsInOrder ==
  [][ /\ mediaIn' = mediaIn + 1
         => chan' = IF openaiWs # 0 /\ chan[openaiWs].st = "open"
                      THEN [chan EXCEPT ![openaiWs].out =
                                          Append(@, AudioAppend(mediaIn + 1))]
                      ELSE chan
      /\ \A k \in 1..Len(chan') : InOrder(chan'[k].out) ]_vars

\* C6 witness: the first frame arrived after start and was dropped, the
\* second was forwarded
C6_DroppedThenForwarded ==
  /\ mediaIn = 2 /\ Len(startTasks) = 1 /\ openaiWs # 0
  /\ Frames(chan[openaiWs].out) = << AudioAppend(2) >>
  /\ chan[openaiWs].st = "open"

\* C7: a media event received before the start event sends nothing to the AI
\* channel, relays nothing and dispatches nothing, and changes no session
\* field.
C7_MediaBeforeStartDropped ==
  [][ (mediaIn' = mediaIn + 1 /\ Len(startTasks) = 0)
      => ( /\ chan' = chan
           /\ sessionVars' = sessionVars
           /\ n8n' = n8n /\ twilioOut' = twilioOut /\ calls' = calls ) ]_vars

\* C7 witness: a media frame was received and no start event yet
C7_MediaSeenBeforeStart ==
  mediaIn >= 1 /\ Len(startTasks) = 0 /\ streamSid = 0 /\ chan = << >>

RelaysMedia == Media /\ chan' # chan

\* an audio delta of channel k is delivered and relayed
RelaysDelta(k) == AudioDelta(k) /\ twilioOut' # twilioOut

\* C9: while a tool call is waiting on its notification or backend request,
\* a media frame can be delivered and is forwarded to the open AI channel,
\* and an audio delta can be delivered and is relayed to the open telephony
\* connection.
C9_RelayNotBlockedByTools ==
  (\E i \in Tasks : Waiting(i))
  => ( /\ (CanDeliver /\ wsState = "open" /\ openaiWs # 0 /\ chan[openaiWs].st = "open")
            => ENABLED RelaysMedia
       /\ \A k \in Channels :
            (CanDeliver /\ wsState = "open" /\ chan[k].st \in {"open", "closing"})
              => ENABLED RelaysDelta(k) )

\* C9 witness: a tool call is still waiting and a media frame received
\* after that tool call has been forwarded
C9_MediaForwardedWhileWaiting ==
  \E i \in Tasks :
    /\ Waiting(i)
    /\ \E k \in Channels : \E p \in 1..Len(chan[k].out) :
         /\ chan[k].out[p].type = "input_audio_buffer.append"
         /\ chan[k].out[p].id > calls[i].mediaSeen

\* the places (channel, position) of the tool outputs of call i
Outputs(i) ==
  { kp \in UNION { {<< k, p >> : p \in 1..Len(chan[k].out)} : k \in Channels } :
      /\ chan[kp[1]].out[kp[2]].type = "function_call_output"
      /\ chan[kp[1]].out[kp[2]].id = i }

\* every tool output is immediately followed by a new-turn trigger
OutputThenTrigger ==
  \A k \in Channels : \A p \in 1..Len(chan[k].out) :
    chan[k].out[p].type = "function_call_output"
      => (p < Len(chan[k].out) /\ chan[k].out[p + 1] = ResponseCreate)

\* C10 (as claimed): for every tool-call request whose handler has ended,
\* exactly one tool output with its call_id was sent, immediately followed
\* by a new-turn trigger.
C10_ExactlyOneReply ==
  /\ \A i \in Tasks :
       calls[i].pc \in {"done", "dropped"} => Cardinality(Outputs(i)) = 1
  /\ OutputThenTrigger

\* C10 (amended): for every tool-call request at most one tool output with
\* its call_id is sent, and none before handleFunctionCall has returned or
\* when the arguments do not parse; every tool output is immediately
\* followed by a new-turn trigger, so no message of another tool call
\* stands between them.
C10_AtMostOneReplyThenTrigger ==
  /\ \A i \in Tasks :
       /\ Cardinality(Outputs(i)) <= 1
       /\ calls[i].pc # "done" => Outputs(i) = {}
  /\ OutputThenTrigger

\* C10 witness: two tool calls were in flight and the second was answered
\* first; each output is followed by its trigger
C10_RepliesOutOfOrder ==
  \E k \in Channels : \E p \in 1..Len(chan[k].out) :
    /\ p + 3 <= Len(chan[k].out)
    /\ chan[k].out[p].type = "function_call_output" /\ chan[k].out[p].id = 2
    /\ chan[k].out[p + 1] = ResponseCreate
    /\ chan[k].out[p + 2].type = "function_call_output" /\ chan[k].out[p + 2].id = 1
    /\ chan[k].out[p + 3] = ResponseCreate

\* handler i of a parsed book_appointment call (running or ended)
Booking(cs, i) == cs[i].name = "book_appointment" /\ cs[i].pc # "dropped"

\* the outcome e reports the booking intent
ReportsIntent(e) ==
  IF e.eventType = "appointment_booked" THEN TRUE ELSE e.bookingIntent

\* C11: from the invocation of a book_appointment call on (so before its
\* backend request is issued, while it is outstanding and after it failed
\* or succeeded) the booking intent is declared, it is never withdrawn, and
\* an outcome dispatched reports the intent declared when the finalizer runs.
C11_IntentDeclaredAtInvocation ==
  [][ /\ \A i \in 1..Len(calls') : Booking(calls', i) => appointmentIntent'
      /\ appointmentIntent => appointmentIntent'
      /\ Len(n8n') = Len(n8n) + 1
           => ReportsIntent(n8n'[Len(n8n')]) = appointmentIntent ]_vars

\* C11 witness: the outcome was dispatched while the backend request of a
\* booking was outstanding, and it reports the booking intent
C11_IntentReportedWhileOutstanding ==
  /\ \E i \in Tasks : calls[i].name = "book_appointment" /\ calls[i].pc = "backend"
  /\ appointmentResult.isNull
  /\ Len(n8n) = 1 /\ n8n[1].eventType # "appointment_booked" /\ n8n[1].bookingIntent

\* C12 (as claimed): when the backend request of a booking settles without
\* an appointment identifier (failure, or success without identifier), the
\* appointment is intent-declared and not confirmed, the result returned is
\* a failure, and the session goes on.
C12_NoIdentifierReturnsFailure ==
  [][ \A i \in Tasks :
        ( /\ calls[i].name = "book_appointment" /\ calls[i].pc = "backend"
          /\ calls'[i].pc = "done"
          /\ (appointmentResult'.isNull \/ appointmentResult'.appointmentId = 0) )
        => ( /\ appointmentIntent' /\ ~Confirmed'
             /\ ~calls'[i].success
             /\ ~crashed' /\ wsState' = wsState ) ]_vars

\* handler i of a booking has handed the confirmation SMS to sendSMS and
\* awaits it
ConfirmationSmsIssued(i) ==
  calls[i].name = "book_appointment" /\ calls[i].pc = "sms"

\* C13 (as claimed): a booking handler sends the confirmation SMS only when
\* consent was given and its backend booking has succeeded with an
\* identifier.
C13_SmsOnlyAfterBooking ==
  \A i \in Tasks :
    ConfirmationSmsIssued(i)
      => ( /\ calls[i].args.smsConsent = "true"
           /\ calls[i].success
           /\ ~appointmentResult.isNull /\ appointmentResult.appointmentId = i )

\* C14: a capture_lead_info call that ends returns success, and the step in
\* which its notification or its lead sync settles (sent or failed, any
\* backend answer) leaves the lead state as merged.
C14_LeadCaptureAlwaysSucceeds ==
  [][ /\ \A i \in 1..Len(calls') :
           (calls'[i].name = "capture_lead_info" /\ calls'[i].pc = "done")
             => calls'[i].success
      /\ \A i \in Tasks :
           (calls[i].name = "capture_lead_info" /\ Waiting(i) /\ calls'[i] # calls[i])
             => ( /\ capturedLeadInfo' = capturedLeadInfo
                  /\ calls'[i].pc \in {"backend", "done"}
                  /\ ~crashed' ) ]_vars

\* C14 witness: a request of a capture_lead_info call failed, the call
\* returned success, its output was sent and the lead is still merged
C14_SucceededThoughRequestFailed ==
  \E i \in Tasks :
    /\ calls[i].name = "capture_lead_info" /\ calls[i].pc = "done"
    /\ calls[i].failed /\ calls[i].success
    /\ \E k \in Channels : \E p \in 1..Len(chan[k].out) :
         chan[k].out[p] = Msg("function_call_output", i, TRUE)
    /\ capturedLeadInfo.email # NULL /\ capturedLeadInfo.smsConsent

\* the step is the entry of a parsed capture_lead_info call
LeadCall ==
  /\ Len(calls') = Len(calls) + 1
  /\ calls'[Len(calls')].name = "capture_lead_info"
  /\ calls'[Len(calls')].pc # "dropped"

\* new is old with the fields that args provide merged in
Merged(old, new, args) ==
  /\ new.name = (IF args.name # NULL THEN args.name ELSE old.name)
  /\ new.email = (IF args.email # NULL THEN args.email ELSE old.email)
  /\ new.phone = (IF args.phone # NULL THEN args.phone ELSE old.phone)
  /\ new.notes = (IF args.notes # NULL THEN old.notes \o << args.notes >>
                                        ELSE old.notes)

\* C15: a capture_lead_info call overwrites name, email and phone with the
\* values it provides, appends the notes it provides and keeps every field
\* it does not provide; no other step changes these fields, and a field
\* that is non-empty stays non-empty.
C15_MergeFieldByField ==
  [][ /\ LeadCall
           => \E args \in LeadArgs :
                /\ calls'[Len(calls')].pc \in {"sms", "backend"}
                     => args = calls'[Len(calls')].args
                /\ Merged(capturedLeadInfo, capturedLeadInfo', args)
      /\ ~LeadCall
           => /\ capturedLeadInfo'.name = capturedLeadInfo.name
              /\ capturedLeadInfo'.email = capturedLeadInfo.email
              /\ capturedLeadInfo'.phone = capturedLeadInfo.phone
              /\ capturedLeadInfo'.notes = capturedLeadInfo.notes
      /\ capturedLeadInfo.name # NULL => capturedLeadInfo'.name # NULL
      /\ capturedLeadInfo.email # NULL => capturedLeadInfo'.email # NULL
      /\ capturedLeadInfo.phone # NULL => capturedLeadInfo'.phone # NULL
      /\ capturedLeadInfo.notes # << >> => capturedLeadInfo'.notes # << >> ]_vars

\* C15 witness: two calls provided notes and both notes are stored, the
\* second appended to the first
C15_NotesAppended ==
  /\ Len(capturedLeadInfo.notes) = 2
  /\ Cardinality({i \in Tasks : calls[i].name = "capture_lead_info"}) = 2

\* the channels after the result of call i and the new-turn trigger were
\* sent on the current AI channel, which transmits them while it is open
Replied(i, success) ==
  IF ReadyState(openaiWs, chan) = "open"
    THEN [chan EXCEPT ![openaiWs].out =
            @ \o << Msg("function_call_output", i, success), ResponseCreate >>]
    ELSE chan

\* C16: a lookup_order_status call reaches its backend request for every
\* argument object, and whatever the backend answers the handler ends by
\* returning a result, a failure when the request failed, which is sent on
\* the AI channel followed by a new-turn trigger; no error escapes.
C16_LookupNeverRaises ==
  [][ /\ \A i \in 1..Len(calls') :
           (i > Len(calls) /\ calls'[i].name = "lookup_order_status")
             => calls'[i].pc = "backend"
      /\ \A i \in Tasks :
           ( /\ calls[i].name = "lookup_order_status" /\ calls[i].pc = "backend"
             /\ calls'[i] # calls[i] )
           => ( /\ calls'[i].pc = "done"
                /\ calls'[i].failed => ~calls'[i].success
                /\ chan' = Replied(i, calls'[i].success)
                /\ ~crashed' ) ]_vars

\* C16 witness: the backend answered OK with no order in the body, and the
\* lookup returned a failure result that was sent on the AI channel
C16_FailureResultWithoutOrder ==
  \E i \in Tasks :
    /\ calls[i].name = "lookup_order_status" /\ calls[i].pc = "done"
    /\ ~calls[i].failed /\ ~calls[i].success
    /\ \E k \in Channels : \E p \in 1..Len(chan[k].out) :
         chan[k].out[p] = Msg("function_call_output", i, FALSE)

\* C17: a tool call with an unknown name ends at once with a failure result,
\* which is sent on the AI channel followed by a new-turn trigger; the step
\* changes no lead or appointment state, closes no socket and lets no error
\* escape.
C17_UnknownToolFailsSoftly ==
  [][ \A i \in 1..Len(calls') :
        (i > Len(calls) /\ calls'[i].name \notin
           {"capture_lead_info", "book_appointment", "lookup_order_status"})
        => ( /\ calls'[i].pc = "done" /\ ~calls'[i].success
             /\ chan' = Replied(i, FALSE)
             /\ capturedLeadInfo' = capturedLeadInfo
             /\ appointmentIntent' = appointmentIntent
             /\ appointmentDetails' = appointmentDetails
             /\ appointmentResult' = appointmentResult
             /\ wsState' = wsState /\ openaiWs' = openaiWs /\ webhookSent' = webhookSent
             /\ ~crashed' ) ]_vars

\* C17 witness: an unknown tool was answered with a failure result, and a
\* later call of a known tool was answered as well
C17_KnownToolAnsweredAfterUnknown ==
  \E i, j \in Tasks :
    /\ i < j
    /\ calls[i].name = "other_tool" /\ calls[i].pc = "done"
    /\ calls[j].name # "other_tool" /\ calls[j].pc = "done"
    /\ \E k \in Channels : \E p, q \in 1..Len(chan[k].out) :
         /\ p < q
         /\ chan[k].out[p] = Msg("function_call_output", i, FALSE)
         /\ chan[k].out[q].type = "function_call_output" /\ chan[k].out[q].id = j

\* C18: when the tenant lookup fails, the start handler goes on: it opens a
\* new AI channel, which becomes the current one, and when that channel
\* opens it is configured with the default values; nothing is closed and no
\* error escapes.
C18_LookupFailureNotFatal ==
  [][ /\ \A t \in 1..Len(startTasks) :
           ( /\ startTasks[t].pc = "settings" /\ startTasks'[t].pc # "settings"
             /\ userId' = 0 )
           => ( /\ startTasks'[t].pc = "done"
                /\ Len(chan') = Len(chan) + 1 /\ openaiWs' = Len(chan')
                /\ chan'[Len(chan')].st = "connecting"
                /\ chan'[Len(chan')].settings = 0
                /\ wsState' = wsState /\ ~crashed' )
      /\ \A k \in Channels :
           ( /\ chan[k].st = "connecting" /\ chan'[k].st = "open"
             /\ k = openaiWs /\ chan[k].settings = 0 )
           => chan'[k].out = << SessionUpdate(0) >> ]_vars

\* C18 witness: the lookup failed, and the AI channel was opened, configured
\* with the default values, acknowledged, and asked for the greeting
C18_ActiveWithDefaults ==
  /\ Len(startTasks) = 1 /\ startTasks[1].pc = "done" /\ userId = 0
  /\ Len(chan) = 1 /\ chan[1].st = "open" /\ acksIn = 1
  /\ chan[1].out = << SessionUpdate(0), ResponseCreate >>

\* C19 (as claimed): once the stop handler that ran the finalizer has ended,
\* the outcome has been dispatched and the AI channel is closing or closed;
\* and while the telephony connection is open, the bridge has closed an AI
\* channel only after dispatching the outcome.
C19_StopClosesAiChannel ==
  /\ stopPc \in {"done", "failed"}
       => ( /\ Len(n8n) = 1
            /\ openaiWs # 0 => chan[openaiWs].st \notin {"connecting", "open"} )
  /\ \A k \in Channels :
       (chan[k].by = "bridge" /\ wsState = "open") => Len(n8n) = 1

\* the outcome e reflects what the waiting tool calls set when they were
\* invoked: the booking intent of a booking (and not the identifier that its
\* backend has not yet returned), the lead of a lead capture
ReflectsInvocations(e) ==
  \A i \in Tasks :
    Waiting(i) =>
      /\ calls[i].name = "book_appointment"
           => ( /\ ReportsIntent(e)
                /\ e.eventType = "appointment_booked" => e.appointmentId # i )
      /\ ( /\ calls[i].name = "capture_lead_info"
           /\ ( \/ calls[i].args.name # NULL \/ calls[i].args.email # NULL
                \/ calls[i].args.notes # NULL ) )
           => e.leadCaptured

\* a stop is delivered and finalizes in the same step
FinalizesAtOnce ==
  /\ Stop
  /\ webhookSent' /\ calls' = calls
  /\ stopPc' \in {"webhook", "failed"}
  /\ stopPc' = "webhook" => (Len(n8n') = 1 /\ ReflectsInvocations(n8n'[1]))

\* C20: while a tool call is waiting on an external request and the
\* finalizer has not run, a stop can be delivered, and it finalizes in the
\* same step with an outcome that reflects the state the waiting calls set
\* at their invocation.
C20_FinalizerDoesNotWait ==
  ( /\ \E i \in Tasks : Waiting(i)
    /\ CanDeliver /\ wsState = "open" /\ ~webhookSent )
  => ENABLED FinalizesAtOnce

\* C20 witness: the stop arrived while a booking was waiting on its backend,
\* the outcome was call_completed with the booking intent, and the backend
\* confirmed the booking afterwards
C20_ConfirmedAfterOutcome ==
  /\ Len(n8n) = 1 /\ n8n[1].eventType = "call_completed" /\ n8n[1].bookingIntent
  /\ Confirmed
  /\ \E i \in Tasks : BookingSucceeded(i) /\ appointmentResult.appointmentId = i

\* C21 (as claimed): when the AI endpoint refuses a connection that was
\* still being set up, the bridge closes the telephony connection.
C21_ConnectFailureClosesTelephony ==
  [][ \A k \in Channels :
        (chan[k].st = "connecting" /\ chan'[k].st = "closed")
          => wsState' = "closed" ]_vars

\* C22: once the delivery of the outcome has failed (webhook not configured,
\* response not OK, or network error) the guard is set and stays set, and no
\* later step, a further stop included, hands another outcome to the webhook.
C22_FailedDeliveryNotRetried ==
  [][ /\ DeliveryFailed(delivery'.result) => webhookSent'
      /\ DeliveryFailed(delivery.result)
           => (webhookSent' /\ n8n' = n8n /\ delivery' = delivery) ]_vars

\* C22 witness: the delivery failed, and a stop that arrived after the
\* failure dispatched nothing
C22_StopAfterFailedDelivery ==
  /\ DeliveryFailed(delivery.result)
  /\ stopsIn > delivery.stops
  /\ webhookSent /\ Len(n8n) = 1

\* the connections whose telephony socket is open
OpenConnections ==
  {s \in SessionIds : sessions[s].ws = "open"}
    \cup (IF wsState = "open" THEN {sessionId} ELSE {})

\* C23: the registry holds exactly the entries of the connections whose
\* telephony socket is open: an entry exists from the connect to the close
\* of its connection, and the size of the registry is the number of open
\* connections.
C23_RegistryHoldsOpenConnections ==
  /\ activeSessions = OpenConnections
  /\ Cardinality(activeSessions) = Cardinality(OpenConnections)

\* C23 witness: one connection has closed and its entry is gone, while the
\* entry of another connection, still open, is in the registry
C23_EntryRemovedAtClose ==
  \E s, t \in SessionIds :
    /\ sessions[s].ws = "closed" /\ s \notin activeSessions
    /\ sessions[t].ws = "open" /\ t \in activeSessions

\* the closures that connection s can have after one event, given its
\* closure c and the clock t and nothing else
OwnSteps(c, s, t) ==
  { [NoSession EXCEPT !.ws = "open", !.callStartTime = t],
    [c EXCEPT !.ws = "closed"],
    StopHandled(c, t) }
    \cup { StartHandled(c, s, uid, t) : uid \in {0, s} }
    \cup { TranscriptHandled(c, speaker) : speaker \in {"Customer", "Krystle"} }
    \cup UNION { { ToolCallHandled(c, functionName, args, resp) :
                     args \in SessionArgs(functionName), resp \in BackendResponses } :
                 functionName \in SessionTools }

\* C24: an event of one connection changes the closure of that connection
\* only (its call ids, lead, appointment state, transcript, guard and emitted
\* outcome), the new closure is determined by the old closure of the same
\* connection, the event and the clock, and of the registry only the entry
\* of that connection changes.
C24_SessionsIsolated ==
  [][ /\ \A s \in SessionIds :
           sessions'[s] # sessions[s]
             => /\ \A t \in SessionIds \ {s} : sessions'[t] = sessions[t]
                /\ connectionVars' = connectionVars
                /\ activeSessions' \ {s} = activeSessions \ {s}
                /\ sessions'[s] \in OwnSteps(sessions[s], s, now)
      /\ connectionVars' # connectionVars
           => /\ sessions' = sessions
              /\ activeSessions' \ {sessionId} = activeSessions \ {sessionId} ]_vars

\* C24 witness: two connections have started, with different call ids; a
\* tool call gave one of them a lead, and the other still has none
C24_LeadOfOneConnectionOnly ==
  \E s, t \in SessionIds :
    /\ sessions[s].callSid # 0 /\ sessions[t].callSid # 0
    /\ sessions[s].callSid # sessions[t].callSid
    /\ hasLeadInfo(sessions[s].capturedLeadInfo)
    /\ sessions[t].capturedLeadInfo = NoLead

\* the requests of a greeting turn on the channels ch: the response.create
\* messages that do not follow a tool output
Greetings(ch) ==
  { p \in UNION { {k} \X DOMAIN ch[k].out : k \in 1..Len(ch) } :
      LET k == p[1]
          i == p[2]
      IN
      /\ ch[k].out[i] = ResponseCreate
      /\ (i = 1 \/ ch[k].out[i-1].type # "function_call_output") }

\* C25: a greeting (a response.create that is not the trigger after a tool
\* output) is sent only in the step that receives a session.updated, one per
\* acknowledgement, so never before the first one; and an acknowledgement
\* received while the current AI channel is open sends it.
C25_GreetingOnAcknowledgement ==
  [][ /\ Greetings(chan') # Greetings(chan)
           => /\ acksIn' = acksIn + 1
              /\ Cardinality(Greetings(chan')) = Cardinality(Greetings(chan)) + 1
      /\ (acksIn' = acksIn + 1 /\ ReadyState(openaiWs, chan) = "open")
           => chan' = [chan EXCEPT ![openaiWs].out = Append(@, ResponseCreate)] ]_vars

\* C25 witness: the channel was configured, acknowledged once, and the
\* greeting followed the configuration
C25_GreetedAfterAcknowledgement ==
  /\ acksIn = 1
  /\ \E k \in Channels :
       chan[k].out = << SessionUpdate(chan[k].settings), ResponseCreate >>

\* C26 (as claimed): the duration of every outcome of a started call is the
\* whole number of seconds from its start event to the stop event that
\* dispatched it.
C26_DurationFromStartToStop ==
  \A s \in SessionIds :
    \A i \in 1..Len(sessions[s].n8n) :
      (sessions[s].startedAt # Never /\ sessions[s].startedAt <= sessions[s].stoppedAt)
        => sessions[s].n8n[i].duration =
             DurationSec(sessions[s].startedAt, sessions[s].stoppedAt)

\* C27 (as claimed): once a start event has set callSid and streamSid, no
\* step changes them.
C27_CallIdsImmutable ==
  [][ /\ callSid # 0 => callSid' = callSid
      /\ streamSid # 0 => streamSid' = streamSid ]_vars

\* C28 (as claimed): an audio delta is sent to the telephony peer only when
\* it comes from the AI channel that is current.
C28_OnlyCurrentChannelRelayed ==
  [][ Len(twilioOut') > Len(twilioOut)
        => twilioOut'[Len(twilioOut')].ch = openaiWs ]_vars

\* the step appended the record of a tool call whose arguments did not parse
DroppedCall(old, new) ==
  Len(new) = Len(old) + 1 /\ new[Len(new)].pc = "dropped"

\* C29: a step that receives a malformed event (a message that is not JSON,
\* an event of unknown type, a start without its start object, a tool call
\* whose arguments do not parse) changes nothing of the session: its
\* variables, both sockets, the handlers under way and what was sent stay as
\* they are, and no exception escapes, so that later events are served.
C29_MalformedEventsDropped ==
  [][ (malformed.n' # malformed.n \/ DroppedCall(calls, calls'))
        => /\ UNCHANGED << sessionVars, wsState, chan, startTasks, stopPc, n8n,
                           twilioOut, crashed, delivery, serverVars >>
           /\ SubSeq(calls', 1, Len(calls)) = calls ]_vars

\* C29 witness: the first event of the connection was malformed; the start
\* event that followed was served, and an audio delta of the AI channel it
\* opened was relayed
C29_ServedAfterMalformed ==
  /\ malformed.n = 1 /\ malformed.at = 1
  /\ Len(startTasks) = 1
  /\ Len(twilioOut) = 1

\* C30: every step leaves the transcript as it is or appends one entry, the
\* one of the transcript event just received, after the entries already
\* there; and the outcome dispatched by a stop carries the log made of all
\* entries received before it, in their order.
C30_TranscriptAppendOnly ==
  [][ /\ \/ conversationTranscript' = conversationTranscript
         \/ /\ Len(conversationTranscript') = Len(conversationTranscript) + 1
            /\ SubSeq(conversationTranscript', 1, Len(conversationTranscript))
                 = conversationTranscript
            /\ conversationTranscript'[Len(conversationTranscript')].text
                 = Len(conversationTranscript) + 1
      /\ Len(n8n') > Len(n8n)
           => n8n'[Len(n8n')].conversationLog = ConversationLog(conversationTranscript) ]_vars

\* C30 witness: the caller's transcription and then the AI's transcript were
\* received, and the log holds them in that order
C30_TwoEntriesInOrder ==
  /\ Len(conversationTranscript) = 2
  /\ conversationTranscript[1] = [speaker |-> "Customer", text |-> 1]
  /\ conversationTranscript[2] = [speaker |-> "Krystle", text |-> 2]

\* no handler of the connection is suspended at an await
HandlersFinished ==
  /\ \A t \in 1..Len(startTasks) : startTasks[t].pc = "done"
  /\ stopPc \notin {"webhook", "patch"}
  /\ \A i \in Tasks : ~Waiting(i)

\* C31 (as claimed): once the telephony connection has closed and every
\* handler has finished, no AI channel of the session is connecting or open.
C31_NoAiChannelAfterTermination ==
  (wsState = "closed" /\ HandlersFinished)
    => \A k \in Channels : chan[k].st \notin {"connecting", "open"}

\* C32 (as claimed): once the appointment is confirmed, every step leaves
\* it confirmed.
C32_ConfirmedStaysConfirmed ==
  [][ Confirmed => Confirmed' ]_vars

\* the outcome dispatched in this step, when it is appointment_booked
BookedNow ==
  /\ Len(n8n') = Len(n8n) + 1
  /\ n8n'[Len(n8n')].eventType = "appointment_booked"

\* C33 (as claimed): an appointment_booked outcome carries the identifier
\* the backend returned for the booking whose arguments it carries, that is
\* for the last book_appointment call invoked before the finalizer ran,
\* also when that call is still awaiting the backend.
C33_BookedOutcomeOfOneBooking ==
  [][ BookedNow =>
        \A i \in Tasks : Booking(calls, i) => i <= n8n'[Len(n8n')].appointmentId ]_vars

\* C34 (as claimed): while the connection has received no start event, no
\* step hands an outcome to the webhook or sets the once-only guard; a stop
\* that comes before the start does neither.
C34_NoOutcomeBeforeStart ==
  [][ startTasks = << >> => (n8n' = n8n /\ webhookSent' = webhookSent) ]_vars

\* C35: on every AI channel the first message the bridge transmits is the
\* configuration (session.update): no audio append, response.create or tool
\* output is transmitted on a channel before its session.update.
C35_ConfigurationFirst ==
  \A k \in Channels :
    chan[k].out # << >> => chan[k].out[1].type = "session.update"

\* C35 witness: the second channel of a call (opened for a second start)
\* transmitted its configuration and then a media frame
C35_AudioAfterConfiguration ==
  /\ Len(chan) = 2 /\ Len(chan[2].out) >= 2
  /\ chan[2].out[1].type = "session.update"
  /\ chan[2].out[2].type = "input_audio_buffer.append"

\* no booking of the call has contacted the backend or returned success,
\* the appointment is not confirmed and no appointment_booked outcome was
\* handed to the webhook
NothingBooked ==
  /\ \A i \in Tasks :
       Booking(calls, i) =>
         (calls[i].pc # "backend" /\ (calls[i].pc = "done" => ~calls[i].success))
  /\ ~Confirmed
  /\ \A n \in 1..Len(n8n) : n8n[n].eventType # "appointment_booked"

\* C36: in a call in which no tenant lookup yields a tenant id (userId stays
\* null), every book_appointment call returns failure without contacting
\* the booking backend, the appointment is never confirmed, and the outcome
\* is never appointment_booked.
C36_NoTenantNoBooking ==
  [](userId = 0) => []NothingBooked

\* C36 witness: the lookup of the only start found no tenant, a booking
\* that sent its confirmation SMS returned failure, and the outcome handed
\* to the webhook is call_completed
C36_BookingRefusedWithoutTenant ==
  /\ Len(startTasks) = 1 /\ startTasks[1].pc = "done" /\ userId = 0
  /\ Len(chan) = 1 /\ chan[1].settings = 0
  /\ \E i \in Tasks : BookingFailed(i) /\ calls[i].failed = FALSE
  /\ Len(n8n) = 1 /\ n8n[1].eventType = "call_completed" /\ n8n[1].bookingIntent

\* the capture_lead_info handlers that have called sendSMS with the lead
\* follow-up message and are awaiting it
LeadSmsIssued ==
  { i \in Tasks : calls[i].name = "capture_lead_info" /\ calls[i].pc = "sms" }

\* C37 (as claimed): within one call at most one lead follow-up message is
\* sent, however often capture_lead_info is invoked after consent was
\* given; in particular no two handlers are sending one at the same time.
C37_LeadSmsAtMostOnce ==
  Cardinality(LeadSmsIssued) <= 1

\* C38 (as claimed): normalizing an order identifier that is already
\* normalized returns it unchanged, whatever text the first call was made
\* with.
C38_NormalizationIdempotent ==
  orderLookup.n >= 2 => orderLookup.cleanOrderId = orderLookup.orderId

=============================================================================
